---------------------------- MODULE Spec2Model ----------------------------
(***************************************************************************)
(* Model of scripts/translate_admin_locales.py: the placeholder guard      *)
(* (protect_placeholders / restore_placeholders), the tree translator      *)
(* (translate_value) and the command-line run (main).                      *)
(*                                                                         *)
(* A Python str is a sequence of one-character strings.  A JSON value is a *)
(* tagged record: Str, Num, Bool, NullV, List, Dict.  A dict keeps its     *)
(* keys and values as two sequences of the same length, in insertion order.*)
(***************************************************************************)
EXTENDS Integers, Sequences, FiniteSets

VARIABLES
    pc,            \* position of the run (or of the unit call)
    args_langs,    \* args.langs: the codes after --langs, <<>> when absent
    source_file,   \* the JSON document stored in the file args.source
    source_opened, \* args.source.open() has been attempted
    source_data,   \* main's source_data (NoneV until loaded)
    dir_created,   \* args.output_dir.mkdir() has succeeded
    target_langs,  \* keys of main's target_langs, in dict order
    loop_idx,      \* position of the for loop in target_langs
    cache,         \* the cache dict of the language being processed
    translated,    \* the value translate_value returned
    written,       \* output files opened for writing, in order
    calls,         \* translator.translate invocations, in order
    error          \* the exception that ended the run ("none" while running)

vars == <<pc, args_langs, source_file, source_opened, source_data, dir_created,
          target_langs, loop_idx, cache, translated, written, calls, error>>

-----------------------------------------------------------------------------
(* Bounds of the model.                                                    *)

\* longest --langs list
MaxLangs == 2
\* nodes (containers and leaves) of a source document of a run
MaxRunNodes == 3
\* nodes of the document times target languages of a run
MaxRunWork == 8
\* nodes of a value handed to translate_value in the unit specification
MaxNodes == 3
\* pieces a string of the unit specification is concatenated from
MaxPieces == 4

-----------------------------------------------------------------------------
(* JSON values.                                                            *)

Str(s) == [type |-> "str", s |-> s]
Num(n) == [type |-> "int", n |-> n]
Bool(b) == [type |-> "bool", b |-> b]
NullV == [type |-> "null"]
List(items) == [type |-> "list", items |-> items]
Dict(keys, vals) == [type |-> "dict", keys |-> keys, vals |-> vals]
\* Python's None for a variable that holds nothing yet
NoneV == [type |-> "unset"]

Range(seq) == {seq[i] : i \in 1..Len(seq)}

Min(S) == CHOOSE x \in S : \A y \in S : x <= y

-----------------------------------------------------------------------------
(* Placeholder guard.                                                      *)

NL == "\n"

RECURSIVE Digits(_)
\* str(n) for n >= 0, as the f-string formats len(tokens) - 1
Digits(n) ==
    LET d == <<"0", "1", "2", "3", "4", "5", "6", "7", "8", "9">>
    IN IF n < 10 THEN <<d[n + 1]>> ELSE Digits(n \div 10) \o <<d[(n % 10) + 1]>>

\* f"__TOKEN_{idx}__"
Marker(idx) ==
    <<"_", "_", "T", "O", "K", "E", "N", "_">> \o Digits(idx) \o <<"_", "_">>

\* \{\{.*?\}\} matched at position p: the index after the match, 0 if none.
\* The lazy .*? stops at the first "}}" and "." matches no newline.
MatchDouble(text, p) ==
    IF p + 1 <= Len(text) /\ text[p] = "{" /\ text[p + 1] = "{"
    THEN LET ends == {e \in (p + 2)..(Len(text) - 1) :
                         /\ text[e] = "}"
                         /\ text[e + 1] = "}"
                         /\ \A k \in (p + 2)..(e - 1) : text[k] # NL}
         IN IF ends = {} THEN 0 ELSE Min(ends) + 2
    ELSE 0

\* \{[^\{\}]+\} matched at position p: the index after the match, 0 if none.
MatchSingle(text, p) ==
    IF p <= Len(text) /\ text[p] = "{"
    THEN LET braces == {q \in (p + 1)..Len(text) : text[q] \in {"{", "}"}}
         IN IF braces = {} THEN 0
            ELSE LET q == Min(braces)
                 IN IF text[q] = "}" /\ q >= p + 2 THEN q + 1 ELSE 0
    ELSE 0

\* the pattern matched at position p: the first alternative is tried first.
PLACEHOLDER_PATTERN(text, p) ==
    IF MatchDouble(text, p) # 0 THEN MatchDouble(text, p) ELSE MatchSingle(text, p)

RECURSIVE SubFrom(_, _, _, _)
\* PLACEHOLDER_PATTERN.sub(_replace, text) from position p on: every match,
\* left to right and non-overlapping, is appended to tokens and replaced by
\* the marker of its index.
SubFrom(text, p, tokens, out) ==
    IF p > Len(text) THEN [safe_text |-> out, tokens |-> tokens]
    ELSE LET e == PLACEHOLDER_PATTERN(text, p)
         IN IF e = 0
            THEN SubFrom(text, p + 1, tokens, Append(out, text[p]))
            ELSE SubFrom(text, e, Append(tokens, SubSeq(text, p, e - 1)),
                         out \o Marker(Len(tokens)))

protect_placeholders(text) == SubFrom(text, 1, <<>>, <<>>)

IsAt(text, p, old) ==
    /\ p + Len(old) - 1 <= Len(text)
    /\ SubSeq(text, p, p + Len(old) - 1) = old

RECURSIVE ReplaceFrom(_, _, _, _, _)
\* text.replace(old, new) for a non-empty old: every occurrence, left to
\* right and non-overlapping.
ReplaceFrom(text, p, old, new, out) ==
    IF p > Len(text) THEN out
    ELSE IF IsAt(text, p, old)
         THEN ReplaceFrom(text, p + Len(old), old, new, out \o new)
         ELSE ReplaceFrom(text, p + 1, old, new, Append(out, text[p]))

Replace(text, old, new) == ReplaceFrom(text, 1, old, new, <<>>)

RECURSIVE RestoreFrom(_, _, _)
\* the for loop of restore_placeholders from index idx (0-based) on
RestoreFrom(text, tokens, idx) ==
    IF idx >= Len(tokens) THEN text
    ELSE RestoreFrom(Replace(text, Marker(idx), tokens[idx + 1]), tokens, idx + 1)

restore_placeholders(text, tokens) == RestoreFrom(text, tokens, 0)

-----------------------------------------------------------------------------
(* The translation service (deep_translator's GoogleTranslator), which is  *)
(* outside the repository: each call either raises or returns some text.   *)
(* A translator is [target, oracle]; oracle[n] is how the service answers  *)
(* the n-th call made through it.                                          *)

LowerCase == <<"a", "b", "c", "d", "e", "f", "g", "h", "i", "j", "k", "l", "m",
               "n", "o", "p", "q", "r", "s", "t", "u", "v", "w", "x", "y", "z">>
UpperCase == <<"A", "B", "C", "D", "E", "F", "G", "H", "I", "J", "K", "L", "M",
               "N", "O", "P", "Q", "R", "S", "T", "U", "V", "W", "X", "Y", "Z">>

Upper(c) ==
    IF \E i \in 1..Len(LowerCase) : LowerCase[i] = c
    THEN UpperCase[CHOOSE i \in 1..Len(LowerCase) : LowerCase[i] = c]
    ELSE c

UpperText(text) == [i \in 1..Len(text) |-> Upper(text[i])]

\* a marker as the service sometimes returns it: with a space put in
BrokenMarker(idx) ==
    <<"_", "_", "T", "O", "K", "E", "N", "_">> \o Digits(idx) \o <<" ", "_", "_">>

\* the answers of the service that leave the markers alone
RunModes == {"raise", "upper"}
\* and those that return the text unchanged or with a marker dropped,
\* duplicated, moved or altered
UnitModes == RunModes \cup {"same", "drop", "dup", "swap", "alter"}

\* translator.translate(text) answered in the given mode
ServiceAnswer(mode, text) ==
    CASE mode = "raise" -> [raised |-> TRUE, text |-> <<>>]
      [] mode = "upper" -> [raised |-> FALSE, text |-> UpperText(text)]
      [] mode = "same" -> [raised |-> FALSE, text |-> text]
      [] mode = "drop" -> [raised |-> FALSE, text |-> Replace(text, Marker(0), <<>>)]
      [] mode = "dup" -> [raised |-> FALSE, text |-> text \o Marker(0)]
      [] mode = "swap" ->
            [raised |-> FALSE,
             text |-> Replace(Replace(Replace(text, Marker(0), <<"#">>),
                                      Marker(1), Marker(0)),
                              <<"#">>, Marker(1))]
      [] mode = "alter" ->
            [raised |-> FALSE, text |-> Replace(text, Marker(0), BrokenMarker(0))]

\* the n-th call of translator.translate
TranslatorTranslate(translator, n, text) == ServiceAnswer(translator.oracle[n], text)

-----------------------------------------------------------------------------
(* Tree translator.                                                        *)
(* translate_value mutates the cache and calls the service, so the model   *)
(* threads env = [cache, calls, raised] through the walk and returns       *)
(* [ret, env].  env.raised says an exception is propagating: the walk      *)
(* stops and ret is meaningless.                                           *)

EmptyCache == [k \in {} |-> <<>>]

\* cache[key] = val
CachePut(c, key, val) ==
    [k \in DOMAIN c \cup {key} |-> IF k = key THEN val ELSE c[k]]

NewEnv == [cache |-> EmptyCache, calls |-> <<>>, raised |-> FALSE]

\* the try statement without its except clause
TryTranslateNoExcept(translator, n, safe_text) ==
    LET r == TranslatorTranslate(translator, n, safe_text)
    IN [raised |-> r.raised, ok |-> ~r.raised, text |-> r.text]

\* try: translated = translator.translate(safe_text)
\* except Exception: translated = safe_text
TryTranslate(translator, n, safe_text) ==
    LET r == TranslatorTranslate(translator, n, safe_text)
    IN IF r.raised
       THEN [raised |-> FALSE, ok |-> FALSE, text |-> safe_text]
       ELSE [raised |-> FALSE, ok |-> TRUE, text |-> r.text]

\* the element of a one-element set.  An intermediate result of the walk is
\* bound as the element of a one-element set, so that it is computed once
\* however often it is used.
Only(S) == CHOOSE x \in S : TRUE

RECURSIVE translate_value(_, _, _)
RECURSIVE TranslateSeq(_, _, _)

\* the comprehensions' iteration: the elements are translated in order, each
\* with the cache the earlier ones left (h: the first element's result, t:
\* the result of the rest)
TranslateSeq(items, translator, env) ==
    IF items = <<>> THEN [ret |-> <<>>, env |-> env]
    ELSE Only({IF h.env.raised THEN [ret |-> <<>>, env |-> h.env]
               ELSE Only({[ret |-> <<h.ret>> \o t.ret, env |-> t.env] :
                             t \in {TranslateSeq(Tail(items), translator, h.env)}}) :
                  h \in {translate_value(Head(items), translator, env)}})

\* the string branch with a result cached only when the service answered
TranslateStrCacheOnSuccess(value, translator, env) ==
    LET key == <<value.s, translator.target>>
    IN IF key \in DOMAIN env.cache
       THEN [ret |-> Str(env.cache[key]), env |-> env]
       ELSE Only({Only({Only({
               LET call == [target |-> translator.target, value |-> value.s,
                            safe |-> p.safe_text, ok |-> r.ok]
               IN [ret |-> Str(restored),
                   env |-> [env EXCEPT !.cache = IF r.ok
                                                  THEN CachePut(@, key, restored)
                                                  ELSE @,
                                       !.calls = Append(@, call)]] :
                  restored \in {restore_placeholders(r.text, p.tokens)}}) :
                  r \in {TryTranslate(translator, Len(env.calls) + 1, p.safe_text)}}) :
                  p \in {protect_placeholders(value.s)}})

\* isinstance(value, str): a cache hit, or p = protect_placeholders(value),
\* r = the try statement's outcome, restored = restore_placeholders(...)
TranslateStr(value, translator, env) ==
    LET key == <<value.s, translator.target>>
    IN IF key \in DOMAIN env.cache
       THEN [ret |-> Str(env.cache[key]), env |-> env]
       ELSE Only({Only({
               LET call == [target |-> translator.target, value |-> value.s,
                            safe |-> p.safe_text, ok |-> r.ok]
               IN IF r.raised
                  THEN [ret |-> NoneV,
                        env |-> [env EXCEPT !.calls = Append(@, call),
                                            !.raised = TRUE]]
                  ELSE Only({[ret |-> Str(restored),
                              env |-> [env EXCEPT
                                          !.cache = CachePut(@, key, restored),
                                          !.calls = Append(@, call)]] :
                                restored \in {restore_placeholders(r.text, p.tokens)}}) :
                  r \in {TryTranslate(translator, Len(env.calls) + 1, p.safe_text)}}) :
                  p \in {protect_placeholders(value.s)}})

\* isinstance(value, dict)
TranslateDict(value, translator, env) ==
    LET r == TranslateSeq(value.vals, translator, env)
    IN [ret |-> IF r.env.raised THEN NoneV ELSE Dict(value.keys, r.ret),
        env |-> r.env]

\* bool(v) is False: what "if v" in a comprehension drops
Falsy(v) ==
    \/ v.type = "null"
    \/ v.type = "bool" /\ ~v.b
    \/ v.type = "int" /\ v.n = 0
    \/ v.type = "str" /\ v.s = <<>>
    \/ v.type = "list" /\ v.items = <<>>
    \/ v.type = "dict" /\ v.keys = <<>>

\* the list branch as [translate_value(v, ...) for v in value if v]
TranslateListIfTruthy(value, translator, env) ==
    LET r == TranslateSeq(SelectSeq(value.items, LAMBDA v : ~Falsy(v)), translator, env)
    IN [ret |-> IF r.env.raised THEN NoneV ELSE List(r.ret), env |-> r.env]

\* isinstance(value, list)
TranslateList(value, translator, env) ==
    LET r == TranslateSeq(value.items, translator, env)
    IN [ret |-> IF r.env.raised THEN NoneV ELSE List(r.ret), env |-> r.env]

\* translate_value(value, translator, cache)
translate_value(value, translator, env) ==
    CASE value.type = "dict" -> TranslateDict(value, translator, env)
      [] value.type = "list" -> TranslateList(value, translator, env)
      [] value.type = "str" -> TranslateStr(value, translator, env)
      [] OTHER -> [ret |-> value, env |-> env]

-----------------------------------------------------------------------------
(* The documents and command lines the model is run on.                    *)

\* "Hi {{n}}"
HiName == <<"H", "i", " ", "{", "{", "n", "}", "}">>
\* "ok {x}"
OkX == <<"o", "k", " ", "{", "x", "}">>

KeyOk == <<"o", "k">>
KeyN == <<"n">>
Keys == {KeyOk, KeyN}

\* the key sequences of a dict of k entries: distinct keys, in either order
KeySeqs(k) == {ks \in [1..k -> Keys] : \A i, j \in 1..k : ks[i] = ks[j] => i = j}

RECURSIVE ValuesOfSize(_, _)
RECURSIVE SeqsOfSize(_, _)

\* the values of exactly n nodes over the given leaves
ValuesOfSize(leaves, n) ==
    IF n = 1 THEN leaves \cup {List(<<>>), Dict(<<>>, <<>>)}
    ELSE {List(c) : c \in SeqsOfSize(leaves, n - 1)}
         \cup UNION {{Dict(ks, c) : ks \in KeySeqs(Len(c))} :
                        c \in SeqsOfSize(leaves, n - 1)}

\* the non-empty sequences of values of m nodes in all
SeqsOfSize(leaves, m) ==
    UNION {{<<v>> \o rest : v \in ValuesOfSize(leaves, j),
                            rest \in IF j = m THEN {<<>>}
                                     ELSE SeqsOfSize(leaves, m - j)} :
              j \in 1..m}

Values(leaves, n) == UNION {ValuesOfSize(leaves, k) : k \in 1..n}

RECURSIVE StringsOfPieces(_, _)
\* the strings concatenated from at most n of the given pieces
StringsOfPieces(pieces, n) ==
    IF n = 0 THEN {<<>>}
    ELSE LET shorter == StringsOfPieces(pieces, n - 1)
         IN shorter \cup {s \o q : s \in shorter, q \in pieces}

RunLeaves == {Str(HiName), Str(OkX), Num(3)}
RunDocs == Values(RunLeaves, MaxRunNodes)

UnitLeaves == {Str(HiName), Str(OkX), Num(3), Bool(TRUE), NullV}
UnitPieces == {<<"a">>, <<"{">>, <<"}">>, Marker(0), Marker(1)}
UnitStrings == StringsOfPieces(UnitPieces, MaxPieces)
UnitValues == Values(UnitLeaves, MaxNodes) \cup {Str(s) : s \in UnitStrings}

RECURSIVE CountStr(_)
RECURSIVE CountStrSeq(_)
\* the string leaves of a value
CountStr(v) ==
    CASE v.type = "str" -> 1
      [] v.type = "list" -> CountStrSeq(v.items)
      [] v.type = "dict" -> CountStrSeq(v.vals)
      [] OTHER -> 0
CountStrSeq(items) ==
    IF items = <<>> THEN 0 ELSE CountStr(Head(items)) + CountStrSeq(Tail(items))

RECURSIVE Nodes(_)
RECURSIVE NodesSeq(_)
\* the containers and leaves of a value
Nodes(v) ==
    CASE v.type = "list" -> 1 + NodesSeq(v.items)
      [] v.type = "dict" -> 1 + NodesSeq(v.vals)
      [] OTHER -> 1
NodesSeq(items) ==
    IF items = <<>> THEN 0 ELSE Nodes(Head(items)) + NodesSeq(Tail(items))

\* one answer of the service for each call the walk of v can make
Oracles(v, modes) == [1..CountStr(v) -> modes]

-----------------------------------------------------------------------------
(* main.                                                                   *)

\* the keys of BUNDLED_LANGS, in the order of the literal
BundledCodes == <<"pl", "de", "fr", "it", "nl", "ar", "ja", "ko">>
BUNDLED_LANGS == [code \in Range(BundledCodes) |-> code]

\* the codes a --langs list of the model is made of: two configured ones and
\* one that is not
ArgCodes == {"de", "fr", "xx"}
LangArgs == UNION {[1..k -> ArgCodes] : k \in 0..MaxLangs}

RECURSIVE DictOrder(_, _)
\* the keys of {code: ... for code in codes}: each code once, where it first
\* occurs
DictOrder(codes, seen) ==
    IF codes = <<>> THEN <<>>
    ELSE IF Head(codes) \in seen THEN DictOrder(Tail(codes), seen)
         ELSE <<Head(codes)>> \o DictOrder(Tail(codes), seen \cup {Head(codes)})

Entry(code) == [locale |-> code, lang_code |-> BUNDLED_LANGS[code]]

Abort(exc) == pc' = "aborted" /\ error' = exc

\* the for loop over BUNDLED_LANGS filtered by args.langs instead of the
\* comprehension over args.langs
ParseArgsBundledOrder ==
    /\ pc = "start"
    /\ LET missing == SelectSeq(args_langs, LAMBDA code : code \notin DOMAIN BUNDLED_LANGS)
       IN IF args_langs # <<>> /\ missing # <<>>
          THEN /\ Abort("ValueError")
               /\ UNCHANGED target_langs
          ELSE /\ target_langs' =
                    IF args_langs # <<>>
                    THEN [i \in 1..Len(SelectSeq(BundledCodes,
                                  LAMBDA code : code \in Range(args_langs)))
                          |-> Entry(SelectSeq(BundledCodes,
                                  LAMBDA code : code \in Range(args_langs))[i])]
                    ELSE [i \in 1..Len(BundledCodes) |-> Entry(BundledCodes[i])]
               /\ pc' = "read"
               /\ UNCHANGED error
    /\ UNCHANGED <<args_langs, source_file, source_opened, source_data, dir_created,
                   loop_idx, cache, translated, written, calls>>

\* the codes that are not configured dropped instead of reported
ParseArgsSkipMissing ==
    /\ pc = "start"
    /\ LET known == SelectSeq(args_langs, LAMBDA code : code \in DOMAIN BUNDLED_LANGS)
           order == DictOrder(known, {})
       IN target_langs' =
              IF args_langs # <<>>
              THEN [i \in 1..Len(order) |-> Entry(order[i])]
              ELSE [i \in 1..Len(BundledCodes) |-> Entry(BundledCodes[i])]
    /\ pc' = "read"
    /\ UNCHANGED <<args_langs, source_file, source_opened, source_data, dir_created,
                   loop_idx, cache, translated, written, calls, error>>

\* --langs ignored
ParseArgsAllLangs ==
    /\ pc = "start"
    /\ LET missing == SelectSeq(args_langs, LAMBDA code : code \notin DOMAIN BUNDLED_LANGS)
       IN IF args_langs # <<>> /\ missing # <<>>
          THEN /\ Abort("ValueError")
               /\ UNCHANGED target_langs
          ELSE /\ target_langs' = [i \in 1..Len(BundledCodes) |-> Entry(BundledCodes[i])]
               /\ pc' = "read"
               /\ UNCHANGED error
    /\ UNCHANGED <<args_langs, source_file, source_opened, source_data, dir_created,
                   loop_idx, cache, translated, written, calls>>

\* main, lines 89-96: the --langs check and target_langs
ParseArgs ==
    /\ pc = "start"
    /\ LET missing == SelectSeq(args_langs, LAMBDA code : code \notin DOMAIN BUNDLED_LANGS)
           order == DictOrder(args_langs, {})
       IN IF args_langs # <<>> /\ missing # <<>>
          THEN /\ Abort("ValueError")
               /\ UNCHANGED target_langs
          ELSE /\ target_langs' =
                    IF args_langs # <<>>
                    THEN [i \in 1..Len(order) |-> Entry(order[i])]
                    ELSE [i \in 1..Len(BundledCodes) |-> Entry(BundledCodes[i])]
               /\ pc' = "read"
               /\ UNCHANGED error
    /\ UNCHANGED <<args_langs, source_file, source_opened, source_data, dir_created,
                   loop_idx, cache, translated, written, calls>>

\* the output directory made before the source is opened
ReadSourceAfterMkdir ==
    /\ pc = "read"
    /\ source_opened' = TRUE
    /\ dir_created' = TRUE
    /\ \E outcome \in {"ok", "FileNotFoundError", "JSONDecodeError"} :
          IF outcome = "ok"
          THEN source_data' = source_file /\ pc' = "mkdir" /\ UNCHANGED error
          ELSE Abort(outcome) /\ UNCHANGED source_data
    /\ UNCHANGED <<args_langs, source_file, target_langs, loop_idx, cache,
                   translated, written, calls>>

\* main, lines 98-99: the file is missing, is not JSON, or is loaded
ReadSource ==
    /\ pc = "read"
    /\ source_opened' = TRUE
    /\ \E outcome \in {"ok", "FileNotFoundError", "JSONDecodeError"} :
          IF outcome = "ok"
          THEN source_data' = source_file /\ pc' = "mkdir" /\ UNCHANGED error
          ELSE Abort(outcome) /\ UNCHANGED source_data
    /\ UNCHANGED <<args_langs, source_file, dir_created, target_langs, loop_idx,
                   cache, translated, written, calls>>

\* main, line 101: mkdir(parents=True, exist_ok=True) succeeds or raises
MakeOutputDir ==
    /\ pc = "mkdir"
    /\ \E ok \in BOOLEAN :
          IF ok
          THEN dir_created' = TRUE /\ pc' = "loop" /\ UNCHANGED error
          ELSE Abort("OSError") /\ UNCHANGED dir_created
    /\ UNCHANGED <<args_langs, source_file, source_opened, source_data, target_langs,
                   loop_idx, cache, translated, written, calls>>

\* main, lines 103-107: one language's fresh cache and translator, and the
\* walk of the document
TranslateLocale ==
    /\ pc = "loop"
    /\ loop_idx <= Len(target_langs)
    /\ \E oracle \in Oracles(source_data, RunModes) :
          \E r \in {translate_value(source_data,
                                   [target |-> target_langs[loop_idx].lang_code,
                                    oracle |-> oracle],
                                   NewEnv)} :
             /\ cache' = r.env.cache
             /\ calls' = calls \o r.env.calls
             /\ translated' = r.ret
             /\ IF r.env.raised
                THEN Abort("TranslationError")
                ELSE pc' = "write" /\ UNCHANGED error
    /\ UNCHANGED <<args_langs, source_file, source_opened, source_data, dir_created,
                   target_langs, loop_idx, written>>

\* main, lines 109-111: open(target_path, "w") raises, or json.dump raises
\* into the opened file, or the file is written whole
WriteLocale ==
    /\ pc = "write"
    /\ \E outcome \in {"ok", "open", "dump"} :
          LET file == [name |-> target_langs[loop_idx].locale,
                       content |-> translated,
                       complete |-> outcome = "ok"]
          IN CASE outcome = "ok" ->
                    /\ written' = Append(written, file)
                    /\ loop_idx' = loop_idx + 1
                    /\ pc' = "loop"
                    /\ UNCHANGED error
               [] outcome = "open" ->
                    /\ Abort("OSError")
                    /\ UNCHANGED <<written, loop_idx>>
               [] outcome = "dump" ->
                    /\ written' = Append(written, file)
                    /\ Abort("OSError")
                    /\ UNCHANGED loop_idx
    /\ UNCHANGED <<args_langs, source_file, source_opened, source_data, dir_created,
                   target_langs, cache, translated, calls>>

\* main, line 113: print("Translation complete.") after the loop
Finish ==
    /\ pc = "loop"
    /\ loop_idx > Len(target_langs)
    /\ pc' = "done"
    /\ UNCHANGED <<args_langs, source_file, source_opened, source_data, dir_created,
                   target_langs, loop_idx, cache, translated, written, calls, error>>

\* the languages a command line asks for
NumTargets(langs) == IF langs = <<>> THEN Len(BundledCodes) ELSE Len(langs)

Init ==
    /\ pc = "start"
    /\ args_langs \in LangArgs
    /\ source_file \in RunDocs
    /\ Nodes(source_file) * NumTargets(args_langs) <= MaxRunWork
    /\ source_opened = FALSE
    /\ source_data = NoneV
    /\ dir_created = FALSE
    /\ target_langs = <<>>
    /\ loop_idx = 1
    /\ cache = EmptyCache
    /\ translated = NoneV
    /\ written = <<>>
    /\ calls = <<>>
    /\ error = "none"

Next ==
    \/ ParseArgs
    \/ ReadSource
    \/ MakeOutputDir
    \/ TranslateLocale
    \/ WriteLocale
    \/ Finish

Spec == Init /\ [][Next]_vars

\* main is one sequential control flow: it takes its next step
FairSpec == Spec /\ WF_vars(Next)

-----------------------------------------------------------------------------
(* The guard and the tree translator called on their own.                  *)

UnitInit ==
    /\ pc = "unit"
    /\ source_data \in UnitValues
    /\ args_langs = <<>>
    /\ source_file = NoneV
    /\ source_opened = FALSE
    /\ dir_created = FALSE
    /\ target_langs = <<>>
    /\ loop_idx = 1
    /\ cache = EmptyCache
    /\ translated = NoneV
    /\ written = <<>>
    /\ calls = <<>>
    /\ error = "none"

\* restore_placeholders(*protect_placeholders(S)) for a string S
GuardRoundTrip ==
    /\ pc = "unit"
    /\ source_data.type = "str"
    /\ LET p == protect_placeholders(source_data.s)
       IN translated' = Str(restore_placeholders(p.safe_text, p.tokens))
    /\ pc' = "restored"
    /\ UNCHANGED <<args_langs, source_file, source_opened, source_data, dir_created,
                   target_langs, loop_idx, cache, written, calls, error>>

\* translate_value(V, translator, {}) for a value V
CallTranslateValue ==
    /\ pc = "unit"
    /\ \E oracle \in Oracles(source_data, UnitModes) :
          \E r \in {translate_value(source_data, [target |-> "de", oracle |-> oracle],
                                   NewEnv)} :
             /\ cache' = r.env.cache
             /\ calls' = r.env.calls
             /\ translated' = r.ret
             /\ IF r.env.raised
                THEN Abort("TranslationError")
                ELSE pc' = "returned" /\ UNCHANGED error
    /\ UNCHANGED <<args_langs, source_file, source_opened, source_data, dir_created,
                   target_langs, loop_idx, written>>

UnitNext ==
    \/ GuardRoundTrip
    \/ CallTranslateValue

UnitSpec == UnitInit /\ [][UnitNext]_vars

-----------------------------------------------------------------------------
(* What the claims speak of.                                               *)

RECURSIVE SameShape(_, _)
\* b has the shape of a: the same keys in the same order, the same lengths,
\* a string where a has a string, and a's own leaf anywhere else
SameShape(a, b) ==
    IF a.type # b.type THEN FALSE
    ELSE CASE a.type = "dict" ->
                /\ a.keys = b.keys
                /\ Len(a.vals) = Len(b.vals)
                /\ \A i \in 1..Len(a.vals) : SameShape(a.vals[i], b.vals[i])
           [] a.type = "list" ->
                /\ Len(a.items) = Len(b.items)
                /\ \A i \in 1..Len(a.items) : SameShape(a.items[i], b.items[i])
           [] a.type = "str" -> TRUE
           [] OTHER -> a = b

RECURSIVE Leaves(_)
RECURSIVE LeavesSeq(_)
\* the leaves of a value, in the order of the walk
Leaves(v) ==
    CASE v.type = "list" -> LeavesSeq(v.items)
      [] v.type = "dict" -> LeavesSeq(v.vals)
      [] OTHER -> <<v>>
LeavesSeq(items) ==
    IF items = <<>> THEN <<>> ELSE Leaves(Head(items)) \o LeavesSeq(Tail(items))

\* the placeholders of a string, in order
Placeholders(text) == protect_placeholders(text).tokens

\* the only call of the walk raised
OnlyCallRaised == Len(calls) = 1 /\ ~calls[1].ok

\* --langs names a code that is not configured
Unsupported == \E i \in 1..Len(args_langs) : args_langs[i] \notin DOMAIN BUNDLED_LANGS

\* the locale codes the command line asks for
Requested == IF args_langs = <<>> THEN Range(BundledCodes) ELSE Range(args_langs)

\* and the order it asks for them in
RequestedOrder == IF args_langs = <<>> THEN BundledCodes ELSE DictOrder(args_langs, {})

WrittenNames == {written[k].name : k \in 1..Len(written)}

\* every target language has its whole file, shaped like the source
RunComplete ==
    /\ pc = "done"
    /\ Len(written) = Len(target_langs)
    /\ \A k \in 1..Len(written) :
          /\ written[k].name = target_langs[k].locale
          /\ written[k].complete
          /\ SameShape(source_data, written[k].content)

\* the run was ended by its command line or by the file system
EnvAbort ==
    /\ pc = "aborted"
    /\ error \in {"ValueError", "FileNotFoundError", "JSONDecodeError", "OSError"}

-----------------------------------------------------------------------------
(* The claims.                                                             *)

\* C1: restore_placeholders(*protect_placeholders(S)) is S for every string
\* S, one that holds marker text __TOKEN_<n>__ of its own included.
C1_RoundTrip == pc = "restored" => translated = source_data

\* C2: the value translate_value returns has the shape of its argument: the
\* same keys in the same order, the same sequence lengths, a string for each
\* string leaf and every other leaf unchanged, whatever the translation
\* function answers or raises.
C2_SameShape == pc = "returned" => SameShape(source_data, translated)

\* C2's case: a dict of two entries, a string and a number, has been
\* translated and the translation function raised.
C2_Witness ==
    /\ pc = "returned"
    /\ source_data.type = "dict"
    /\ Len(source_data.keys) = 2
    /\ source_data.vals[1].type = "str"
    /\ source_data.vals[2].type = "int"
    /\ OnlyCallRaised

\* C3: for one target language the translation function is called at most
\* once for a source string, whether the call succeeded or raised, and all
\* occurrences of the string in the document get the same result.
C3_AtMostOnce ==
    /\ \A i, j \in 1..Len(calls) :
          (calls[i].value = calls[j].value /\ calls[i].target = calls[j].target)
             => i = j
    /\ pc = "write" =>
          LET src == Leaves(source_data)
              out == Leaves(translated)
          IN /\ Len(out) = Len(src)
             /\ \A a, b \in 1..Len(src) : src[a] = src[b] => out[a] = out[b]

\* C3's case: the document holds the same string twice, its first language
\* has been translated with one call, and that call raised.
C3_Witness ==
    /\ pc = "write"
    /\ loop_idx = 1
    /\ source_data = List(<<Str(HiName), Str(HiName)>>)
    /\ OnlyCallRaised

\* C4: when the translation function raises for a string leaf S, nothing
\* propagates and translate_value returns S itself.
C4_FallbackIsSource ==
    (pc \in {"returned", "aborted"} /\ source_data.type = "str" /\ OnlyCallRaised)
       => (pc = "returned" /\ translated = source_data)

\* C5: with a code in --langs that is not configured the run aborts with the
\* ValueError before the source is opened, the output directory made, the
\* translation function called or a file written, also when other codes of
\* the list are configured.
C5_UnsupportedAbortsFirst ==
    Unsupported =>
       /\ pc \in {"start", "aborted"}
       /\ pc = "aborted" => error = "ValueError"
       /\ ~source_opened
       /\ source_data = NoneV
       /\ ~dir_created
       /\ calls = <<>>
       /\ written = <<>>

\* C5's case: --langs de xx has aborted.
C5_Witness == pc = "aborted" /\ error = "ValueError" /\ args_langs = <<"de", "xx">>

\* C6: a run writes no file but <code>.json for the codes asked for, each at
\* most once, and a run that completes has written one for each of them:
\* the distinct codes of --langs, or the eight configured codes without it.
C6_ExactlyRequested ==
    /\ WrittenNames \subseteq Requested
    /\ \A i, j \in 1..Len(written) : written[i].name = written[j].name => i = j
    /\ pc = "done" =>
          /\ WrittenNames = Requested
          /\ \A k \in 1..Len(written) : written[k].complete

\* C6's case: --langs de fr has completed.
C6_Witness == pc = "done" /\ args_langs = <<"de", "fr">> /\ Len(written) = 2

\* C7: a run in which the translation function raises still ends, either
\* with every requested language's file written whole and shaped like the
\* source and the final message printed, or by an error of the command line
\* or the file system; a raise of the translation function never ends it.
C7_TranslationFailureIsolated == <>(RunComplete \/ EnvAbort)

\* C7's case: a run of two languages has completed, and in the walk of one
\* language one string's call raised and another string's call succeeded.
C7_Witness ==
    /\ RunComplete
    /\ Len(target_langs) = 2
    /\ \E i, j \in 1..Len(calls) :
          /\ calls[i].target = calls[j].target
          /\ ~calls[i].ok
          /\ calls[j].ok

\* C8: the placeholders of what translate_value returns for a string leaf
\* are those of the source string, in the same order, whatever text the
\* translation function returned.
C8_PlaceholdersPreserved ==
    (pc = "returned" /\ source_data.type = "str")
       => Placeholders(translated.s) = Placeholders(source_data.s)

\* C9: when the source file is missing or is not JSON the run aborts with
\* that error, having made no output directory, called no translation and
\* written no file.
C9_BadSourceNoOutput ==
    error \in {"FileNotFoundError", "JSONDecodeError"} =>
       /\ pc = "aborted"
       /\ source_data = NoneV
       /\ ~dir_created
       /\ calls = <<>>
       /\ written = <<>>

\* C9's case: the source file was opened and is not JSON.
C9_Witness == pc = "aborted" /\ error = "JSONDecodeError" /\ source_opened

\* C10: the files written are at every point a prefix of the requested
\* order, all whole but possibly the last of an aborted run; a language's
\* translation calls are made only when every earlier language's file is
\* written; and the run is done only when the last file is written.
C10_InOrder ==
    /\ Len(written) <= Len(RequestedOrder)
    /\ \A k \in 1..Len(written) :
          /\ written[k].name = RequestedOrder[k]
          /\ (written[k].complete \/ (k = Len(written) /\ pc = "aborted"))
    /\ \A c \in 1..Len(calls) : \A k \in 1..Len(RequestedOrder) :
          calls[c].target = BUNDLED_LANGS[RequestedOrder[k]] => Len(written) >= k - 1
    /\ pc = "done" => Len(written) = Len(RequestedOrder)

\* C10's case: --langs fr de wrote fr.json, translated for de and aborted
\* when de.json could not be opened.
C10_Witness ==
    /\ pc = "aborted"
    /\ error = "OSError"
    /\ args_langs = <<"fr", "de">>
    /\ Len(written) = 1
    /\ written[1].complete
    /\ \E c \in 1..Len(calls) : calls[c].target = "de"

=============================================================================
